---- MODULE Spec2Model ----
(***************************************************************************)
(* Model of the postpartum health assistant: the record store, the two     *)
(* search implementations (PostpartumRAGSystem, PostpartumKnowledgeBase),  *)
(* the confidence gate of ChatInterface.get_response and the Streamlit     *)
(* script of app.py.                                                       *)
(*                                                                         *)
(* Python strings are TLA+ strings.  Scores are Python floats in the code; *)
(* here they are integers in hundredths (0.7 is 70, 2.0 is 200).  For the  *)
(* queries of this model (at most four scoring words) the float sums       *)
(* compare with 0.3 and 0.7 exactly as the hundredths do.                  *)
(***************************************************************************)
EXTENDS Integers, Sequences, FiniteSets, TLC

VARIABLES
    knowledge_data,   \* PostpartumRAGSystem.knowledge_data
    data,             \* PostpartumKnowledgeBase.data
    call,             \* the last completed call on the two objects and what it returned
    session_state,    \* st.session_state of app.py
    page              \* what the last run of the app script left on the page

vars == <<knowledge_data, data, call, session_state, page>>

----------------------------------------------------------------------------
(* Python str operations *)

Upper == "ABCDEFGHIJKLMNOPQRSTUVWXYZ"
LowerLetters == "abcdefghijklmnopqrstuvwxyz"
Digits == "0123456789"

\* the one-character string at position i of s (1-based)
Char(s, i) == SubSeq(s, i, i)

\* 0 when c is not a character of alphabet, else its 1-based position
IndexIn(c, alphabet) ==
    LET hits == {i \in 1..Len(alphabet) : Char(alphabet, i) = c}
    IN IF hits = {} THEN 0 ELSE CHOOSE i \in hits : TRUE

LowerChar(c) ==
    LET i == IndexIn(c, Upper) IN IF i = 0 THEN c ELSE Char(LowerLetters, i)

\* str.lower()
RECURSIVE Lower(_)
Lower(s) ==
    IF Len(s) = 0 THEN "" ELSE LowerChar(Char(s, 1)) \o Lower(SubSeq(s, 2, Len(s)))

\* Python's `sub in s` on strings
Contains(sub, s) ==
    \E i \in 0..(Len(s) - Len(sub)) : SubSeq(s, i + 1, i + Len(sub)) = sub

IsSpace(c) == c = " " \/ c = "\n" \/ c = "\t"
IsDigitChar(c) == IndexIn(c, Digits) # 0

\* str.strip()
RECURSIVE LStrip(_)
LStrip(s) ==
    IF Len(s) > 0 /\ IsSpace(Char(s, 1)) THEN LStrip(SubSeq(s, 2, Len(s))) ELSE s

RECURSIVE RStrip(_)
RStrip(s) ==
    IF Len(s) > 0 /\ IsSpace(Char(s, Len(s))) THEN RStrip(SubSeq(s, 1, Len(s) - 1)) ELSE s

Strip(s) == LStrip(RStrip(s))

\* the maximal runs of characters satisfying Keep, in order: str.split() with
\* Keep = not whitespace, re.findall(r'\d+', s) with Keep = digit
RECURSIVE Runs(_, _, _, _)
Runs(s, i, cur, isDigitRun) ==
    IF i > Len(s)
    THEN IF cur = "" THEN <<>> ELSE <<cur>>
    ELSE LET c == Char(s, i)
             keep == IF isDigitRun THEN IsDigitChar(c) ELSE ~IsSpace(c)
         IN IF keep
            THEN Runs(s, i + 1, cur \o c, isDigitRun)
            ELSE (IF cur = "" THEN <<>> ELSE <<cur>>) \o Runs(s, i + 1, "", isDigitRun)

Split(s) == Runs(s, 1, "", FALSE)
FindAllDigits(s) == Runs(s, 1, "", TRUE)

\* str.isdigit() on ASCII text
IsDigit(s) == Len(s) > 0 /\ \A i \in 1..Len(s) : IsDigitChar(Char(s, i))

\* int() of a string of decimal digits
RECURSIVE ToInt(_)
ToInt(s) ==
    IF Len(s) = 0 THEN 0
    ELSE 10 * ToInt(SubSeq(s, 1, Len(s) - 1)) + (IndexIn(Char(s, Len(s)), Digits) - 1)

\* seq[:n] for n >= 0
Take(seq, n) == SubSeq(seq, 1, IF n < Len(seq) THEN n ELSE Len(seq))

Max(a, b) == IF a >= b THEN a ELSE b
Min(a, b) == IF a <= b THEN a ELSE b

----------------------------------------------------------------------------
(* The record source: the JSON documents the model loads *)

\* the en dash of the Source fields (module text is ASCII)
EnDash == "~"

\* JSON null as a field value: item.get(k, "") returns None for it
NoneValue == "<null>"

BleedingQuestion == "How long will postpartum bleeding last?"
HairQuestion == "How can I manage postpartum hair loss?"

RecBleeding ==
    [Question |-> BleedingQuestion,
     Category |-> "Physical Recovery",
     Keywords |-> "lochia, discharge, bleeding duration",
     ShortAnswer |-> "Bleeding usually tapers off within six weeks.",
     LongAnswer |-> "Lochia changes from red to pink to white.",
     WhenToSeekHelp |-> "Soaking a pad in under an hour.",
     Source |-> "NHS ~ https://www.nhs.uk/lochia",
     RelatedQuestions |-> "Is clotting normal?; When will my period return?"]

RecHair ==
    [Question |-> HairQuestion,
     Category |-> "Physical Recovery",
     Keywords |-> "hair loss, shedding",
     ShortAnswer |-> "It peaks around four months and resolves.",
     LongAnswer |-> "Growth returns within a year.",
     WhenToSeekHelp |-> "",
     Source |-> "Mayo Clinic",
     RelatedQuestions |-> ""]

\* a second record with the same Question text (the source is not deduplicated)
RecHairDup ==
    [Question |-> HairQuestion,
     Category |-> "Physical Recovery",
     Keywords |-> "alopecia",
     ShortAnswer |-> "Hair shedding is temporary.",
     LongAnswer |-> "Growth returns within a year.",
     WhenToSeekHelp |-> "See a doctor for bald patches.",
     Source |-> "Cleveland Clinic",
     RelatedQuestions |-> "Is clotting normal?"]

\* a record whose Question is JSON null
RecNull == [RecHair EXCEPT !.Question = NoneValue]

\* a record on the same subject whose Question shares four words with
\* BleedingQuestion without containing it
RecRival ==
    [Question |-> "Will postpartum bleeding go on for long?",
     Category |-> "Physical Recovery",
     Keywords |-> "lochia",
     ShortAnswer |-> "Call your midwife.",
     LongAnswer |-> "",
     WhenToSeekHelp |-> "",
     Source |-> "Mayo Clinic",
     RelatedQuestions |-> ""]

FullStore == <<RecBleeding, RecHair, RecHairDup>>
RivalStore == <<RecBleeding, RecRival>>
NullStore == <<RecBleeding, RecNull>>
EmptyStore == <<>>

\* the documents json.load can return
Documents == {FullStore, NullStore, RivalStore, EmptyStore}

Queries ==
    {BleedingQuestion,
     "  HOW LONG will postpartum bleeding last? ",
     "postpartum bleeding",
     "shedding",
     "lochia discharge",
     "recovery",
     "what about sleep",
     "tips for hair loss"}

\* the greatest top_k a caller passes
MaxTopK == 3
TopKs == 0..MaxTopK

\* what the provider's generate_content does: raise, or a response with this text
\* ("" stands for a response whose text is empty or None)
ProviderRaise == [raises |-> TRUE, text |-> ""]
ProviderText(t) == [raises |-> FALSE, text |-> t]

SelectResponses ==
    {ProviderRaise} \cup
    {ProviderText(t) : t \in {"", "1", "3, 1", "9", "none", " 2 ", "Try 9 or 2"}}

GenerateResponses ==
    {ProviderRaise, ProviderText(""), ProviderText("You are doing great.")}

----------------------------------------------------------------------------
(* PostpartumRAGSystem *)

key_phrases ==
    <<"low milk supply", "milk supply", "pump at work", "pumping at work",
      "postpartum bleeding", "hair loss", "c-section", "exercise after birth",
      "breastfeeding", "stitches", "period return", "diastasis recti",
      "night sweats", "hemorrhoids", "constipation", "perineal pain">>

important_words ==
    {"supply", "milk", "pump", "work", "bleeding", "exercise", "pain", "stitches"}

\* .lower() of a field raises AttributeError when the field is None
FieldsRaise(item) ==
    \E v \in {item.Question, item.Keywords, item.ShortAnswer, item.LongAnswer, item.Category} :
        v = NoneValue

\* the score one phrase contributes (rag_system.py lines 116-127)
PhraseTier(phrase, query_lower, question, keywords, short_answer, long_answer) ==
    IF ~Contains(phrase, query_lower) THEN 0
    ELSE IF Contains(phrase, question) THEN 94
    ELSE IF Contains(phrase, keywords) THEN 90
    ELSE IF Contains(phrase, short_answer) THEN 86
    ELSE IF Contains(phrase, long_answer) THEN 82
    ELSE 0

RECURSIVE PhraseScore(_, _, _, _, _, _)
PhraseScore(i, query_lower, question, keywords, short_answer, long_answer) ==
    IF i > Len(key_phrases) THEN 0
    ELSE Max(PhraseTier(key_phrases[i], query_lower, question, keywords, short_answer, long_answer),
             PhraseScore(i + 1, query_lower, question, keywords, short_answer, long_answer))

\* the words of the query that take part in word matching
QueryWords(query_lower) == SelectSeq(Split(query_lower), LAMBDA w : Len(w) > 3)

\* the loop over query_words: <<score added, word_matches>>
RECURSIVE WordLoop(_, _, _, _, _, _)
WordLoop(words, i, question, keywords, short_answer, category) ==
    IF i > Len(words) THEN <<0, 0>>
    ELSE LET word == words[i]
             rest == WordLoop(words, i + 1, question, keywords, short_answer, category)
             here == IF Contains(word, question)
                     THEN <<IF word \in important_words THEN 40 ELSE 30, 1>>
                     ELSE IF Contains(word, keywords) THEN <<25, 1>>
                     ELSE IF Contains(word, short_answer) THEN <<15, 1>>
                     ELSE IF Contains(word, category) THEN <<10, 0>>
                     ELSE <<0, 0>>
         IN <<here[1] + rest[1], here[2] + rest[2]>>

\* the boost for multiple word matches
MatchBonus(word_matches) ==
    IF word_matches >= 2 THEN 15
    ELSE IF word_matches >= 3 THEN 25
    ELSE 0

\* the score of the word tier: the increments of the loop and the boost
WordScore(w) == w[1] + MatchBonus(w[2])

\* the if/elif ladder of _enhanced_search on the lowered query and fields
ScoreLowered(query_lower, question, keywords, short_answer, long_answer, category) ==
    IF query_lower = question THEN 200
    ELSE IF Contains(query_lower, question) THEN 180
    ELSE IF Contains(question, query_lower) THEN 160
    ELSE IF Contains("low milk supply", query_lower) /\ Contains("low supply", keywords) THEN 150
    ELSE PhraseScore(1, query_lower, question, keywords, short_answer, long_answer)
         + WordScore(WordLoop(QueryWords(query_lower), 1, question, keywords, short_answer,
                              category))

\* the score _enhanced_search gives one record (the body of its for loop)
Score(query, item) ==
    ScoreLowered(Lower(query), Lower(item.Question), Lower(item.Keywords),
                 Lower(item.ShortAnswer), Lower(item.LongAnswer), Lower(item.Category))

\* a scored candidate: the record at position idx of the store, and its score
Cand(i, s) == [idx |-> i, score |-> s]

\* list.sort(key=score, reverse=True): stable, equal scores keep their order
RECURSIVE InsertDesc(_, _)
InsertDesc(sorted, c) ==
    IF sorted = <<>> THEN <<c>>
    ELSE IF Head(sorted).score >= c.score
         THEN <<Head(sorted)>> \o InsertDesc(Tail(sorted), c)
         ELSE <<c>> \o sorted

RECURSIVE SortDesc(_)
SortDesc(seq) ==
    IF seq = <<>> THEN <<>>
    ELSE InsertDesc(SortDesc(SubSeq(seq, 1, Len(seq) - 1)), seq[Len(seq)])

\* step 1 of _enhanced_search: the scored records, sorted
RECURSIVE ScoreAll(_, _, _)
ScoreAll(store, query, i) ==
    IF i > Len(store) THEN <<>>
    ELSE LET s == Score(query, store[i])
         IN (IF s > 0 THEN <<Cand(i, s)>> ELSE <<>>) \o ScoreAll(store, query, i + 1)

LocalResults(store, query) == SortDesc(ScoreAll(store, query, 1))

\* _ai_assisted_search giving its candidates the confidence 0.6
RECURSIVE AiCandidatesLowConfidence(_, _, _)
AiCandidatesLowConfidence(store, numbers, i) ==
    IF i > Len(numbers) THEN <<>>
    ELSE LET idx == ToInt(numbers[i]) - 1
         IN (IF 0 <= idx /\ idx < Len(store) THEN <<Cand(idx + 1, 60)>> ELSE <<>>)
            \o AiCandidatesLowConfidence(store, numbers, i + 1)

\* the candidates _ai_assisted_search builds from the provider's numbers
RECURSIVE AiCandidates(_, _, _)
AiCandidates(store, numbers, i) ==
    IF i > Len(numbers) THEN <<>>
    ELSE LET idx == ToInt(numbers[i]) - 1
         IN (IF 0 <= idx /\ idx < Len(store) THEN <<Cand(idx + 1, 75)>> ELSE <<>>)
            \o AiCandidates(store, numbers, i + 1)

\* _ai_assisted_search: resp is what generate_content does in this call
_ai_assisted_search(store, top_k, resp) ==
    IF resp.raises THEN <<>>
    ELSE IF resp.text = "" THEN <<>>
    ELSE AiCandidates(store, Take(FindAllDigits(resp.text), top_k), 1)

\* combined[item_key] = cand on a dict kept as its list of entries in insertion order
DictPut(combined, item_key, cand) ==
    IF \E p \in 1..Len(combined) : combined[p].key = item_key
    THEN [p \in 1..Len(combined) |->
            IF combined[p].key = item_key THEN [key |-> item_key, cand |-> cand]
            ELSE combined[p]]
    ELSE Append(combined, [key |-> item_key, cand |-> cand])

DictGet(combined, item_key) ==
    (CHOOSE e \in {combined[p] : p \in 1..Len(combined)} : e.key = item_key).cand

DictHas(combined, item_key) == \E p \in 1..Len(combined) : combined[p].key = item_key

\* the first loop of the merge: the local candidates, keyed by Question
RECURSIVE PutLocal(_, _, _, _)
PutLocal(store, combined, cands, i) ==
    IF i > Len(cands) THEN combined
    ELSE PutLocal(store, DictPut(combined, store[cands[i].idx].Question, cands[i]), cands, i + 1)

\* the second loop of the merge: the provider's candidates
RECURSIVE PutRemote(_, _, _, _)
PutRemote(store, combined, ai_results, i) ==
    IF i > Len(ai_results) THEN combined
    ELSE LET c == ai_results[i]
             item_key == store[c.idx].Question
             next == IF DictHas(combined, item_key)
                     THEN DictPut(combined, item_key,
                                  Cand(c.idx, Max(DictGet(combined, item_key).score, c.score)))
                     ELSE DictPut(combined, item_key, c)
         IN PutRemote(store, next, ai_results, i + 1)

\* the dict `combined` when both loops are done
Combined(store, results, ai_results, top_k) ==
    PutRemote(store, PutLocal(store, <<>>, Take(results, top_k), 1), ai_results, 1)

\* list(combined.values())
DictValues(combined) == [p \in 1..Len(combined) |-> combined[p].cand]

\* whether step 2 of _enhanced_search asks the provider
NeedsAi(results) == results = <<>> \/ results[1].score < 70

\* one call of the provider's generate_content: op is "select" (choosing candidates)
\* or "generate" (writing a reply); context is the position of the record put in
\* the prompt of a reply, 0 for none
ProviderCall(op, context) == [op |-> op, context |-> context]
SelectCall == ProviderCall("select", 0)

\* what a search call did: the exception it raised ("" for none), the list it
\* returned, the sorted local list of step 1, the provider operations it called,
\* the provider's candidates and the merged list before the final sort
SearchReturn(error, results, local, provider, remote, merged) ==
    [error |-> error, results |-> results, local |-> local, provider |-> provider,
     remote |-> remote, merged |-> merged]

\* the end of the merge: final_results sorted and cut to top_k
MergeReturn(results, ai_results, final_results, top_k) ==
    SearchReturn("", Take(SortDesc(final_results), top_k), results, <<SelectCall>>,
                 ai_results, final_results)

\* _enhanced_search returning the provider's candidates even when there are none
WithAiResultsNoFallback(store, top_k, results, ai_results) ==
    IF ai_results # <<>>
    THEN MergeReturn(results, ai_results,
                     DictValues(Combined(store, results, ai_results, top_k)), top_k)
    ELSE SearchReturn("", Take(ai_results, top_k), results, <<SelectCall>>, ai_results, <<>>)

\* _enhanced_search asking the provider a second time when it got no candidate
WithAiResultsRetry(store, top_k, results, ai_results) ==
    IF ai_results # <<>>
    THEN MergeReturn(results, ai_results,
                     DictValues(Combined(store, results, ai_results, top_k)), top_k)
    ELSE SearchReturn("", Take(results, top_k), results, <<SelectCall, SelectCall>>,
                      ai_results, <<>>)

\* _enhanced_search once the provider's candidates are there
WithAiResults(store, top_k, results, ai_results) ==
    IF ai_results # <<>>
    THEN MergeReturn(results, ai_results,
                     DictValues(Combined(store, results, ai_results, top_k)), top_k)
    ELSE SearchReturn("", Take(results, top_k), results, <<SelectCall>>, ai_results, <<>>)

\* step 2 of _enhanced_search; results is the sorted local list
Step2(store, top_k, resp, results) ==
    IF NeedsAi(results)
    THEN WithAiResults(store, top_k, results, _ai_assisted_search(store, top_k, resp))
    ELSE SearchReturn("", Take(results, top_k), results, <<>>, <<>>, <<>>)

\* _enhanced_search
_enhanced_search(store, query, top_k, resp) ==
    IF store = <<>>
    THEN SearchReturn("", <<>>, <<>>, <<>>, <<>>, <<>>)
    ELSE IF \E i \in 1..Len(store) : FieldsRaise(store[i])
    THEN SearchReturn("AttributeError", <<>>, <<>>, <<>>, <<>>, <<>>)
    ELSE Step2(store, top_k, resp, LocalResults(store, query))

\* PostpartumRAGSystem.search
search(store, query, top_k, resp) ==
    IF store = <<>>
    THEN SearchReturn("ValueError", <<>>, <<>>, <<>>, <<>>, <<>>)
    ELSE _enhanced_search(store, query, top_k, resp)

----------------------------------------------------------------------------
(* PostpartumKnowledgeBase *)

kb_key_phrases ==
    <<"low milk supply", "milk supply", "pump at work", "pumping at work",
      "postpartum bleeding", "hair loss", "c-section", "exercise after birth",
      "breastfeeding", "stitches", "period return", "diastasis recti">>

\* .lower() of a field raises AttributeError when the field is None
KbFieldsRaise(item) ==
    \E v \in {item.Question, item.Keywords, item.ShortAnswer, item.LongAnswer} :
        v = NoneValue

\* the key-phrase loop of _fallback_search
KbPhraseScore(query_lower, question, keywords, short_answer) ==
    IF \E i \in 1..Len(kb_key_phrases) :
          /\ Contains(kb_key_phrases[i], query_lower)
          /\ Contains(kb_key_phrases[i], question \o " " \o keywords \o " " \o short_answer)
    THEN 90
    ELSE 0

\* the loop over query_words of _fallback_search: <<score added, word_matches>>
RECURSIVE KbWordLoop(_, _, _, _, _, _)
KbWordLoop(words, i, question, keywords, short_answer, long_answer) ==
    IF i > Len(words) THEN <<0, 0>>
    ELSE LET word == words[i]
             rest == KbWordLoop(words, i + 1, question, keywords, short_answer, long_answer)
             here == IF Contains(word, question) THEN <<30, 1>>
                     ELSE IF Contains(word, keywords) THEN <<25, 1>>
                     ELSE IF Contains(word, short_answer) THEN <<15, 1>>
                     ELSE IF Contains(word, long_answer) THEN <<10, 0>>
                     ELSE <<0, 0>>
         IN <<here[1] + rest[1], here[2] + rest[2]>>

\* the score of the word tier: the increments of the loop and the boost
KbWordScore(w) == w[1] + (IF w[2] >= 2 THEN 20 ELSE 0)

\* the category check at the end of the else branch
KbCategoryScore(query_words, category) ==
    IF \E j \in 1..Len(query_words) : Contains(query_words[j], category) THEN 10 ELSE 0

\* the if/elif ladder of _fallback_search on the lowered query and fields
KbScoreLowered(query_lower, question, keywords, short_answer, long_answer, Category) ==
    IF query_lower = question THEN 100
    ELSE IF Contains(query_lower, question) \/ Contains(question, query_lower) THEN 95
    ELSE KbPhraseScore(query_lower, question, keywords, short_answer)
         + KbWordScore(KbWordLoop(QueryWords(query_lower), 1, question, keywords,
                                  short_answer, long_answer))
         + KbCategoryScore(QueryWords(query_lower), Lower(Category))

\* the score _fallback_search gives one record, before the cap at 1.0
KbScore(query, item) ==
    KbScoreLowered(Lower(query), Lower(item.Question), Lower(item.Keywords),
                   Lower(item.ShortAnswer), Lower(item.LongAnswer), item.Category)

RECURSIVE KbScoreAll(_, _, _)
KbScoreAll(store, query, i) ==
    IF i > Len(store) THEN <<>>
    ELSE LET sc == KbScore(query, store[i])
         IN (IF sc > 0 THEN <<Cand(i, Min(sc, 100))>> ELSE <<>>)
            \o KbScoreAll(store, query, i + 1)

\* _fallback_search, on a store whose fields do not raise
_fallback_search(store, query, top_k) ==
    IF store = <<>> THEN <<>> ELSE Take(SortDesc(KbScoreAll(store, query, 1)), top_k)

\* whether search returns the keyword results without asking the provider
KbGoodMatch(direct_results) == direct_results # <<>> /\ direct_results[1].score > 70

\* the candidate search takes from the provider's answer, if any
KbProviderPick(store, resp) ==
    IF resp.raises THEN <<>>
    ELSE IF resp.text # "" /\ IsDigit(Strip(resp.text))
    THEN LET question_num == ToInt(Strip(resp.text)) - 1
         IN IF 0 <= question_num /\ question_num < Len(store)
            THEN <<Cand(question_num + 1, 80)>>
            ELSE <<>>
    ELSE <<>>

\* the end of search: the provider's pick if there is one, else the keyword results
KbBackup(direct_results, pick) ==
    SearchReturn("", IF pick # <<>> THEN pick ELSE direct_results,
                 direct_results, <<SelectCall>>, pick, <<>>)

\* search after the keyword search; direct_results is what _fallback_search returned
KbStep2(store, resp, direct_results) ==
    IF KbGoodMatch(direct_results)
    THEN SearchReturn("", direct_results, direct_results, <<>>, <<>>, <<>>)
    ELSE KbBackup(direct_results, KbProviderPick(store, resp))

\* PostpartumKnowledgeBase.search; d is self.data
kb_search(d, query, top_k, resp) ==
    IF d.isNone \/ d.items = <<>>
    THEN SearchReturn("ValueError", <<>>, <<>>, <<>>, <<>>, <<>>)
    ELSE IF \E i \in 1..Len(d.items) : KbFieldsRaise(d.items[i])
    THEN SearchReturn("AttributeError", <<>>, <<>>, <<>>, <<>>, <<>>)
    ELSE KbStep2(d.items, resp, _fallback_search(d.items, query, top_k))

----------------------------------------------------------------------------
(* generate_conversational_response and ChatInterface *)

EmptyTextDefault ==
    "I'm here to help with any postpartum questions you have. Could you tell me more about what you're experiencing?"

GenerateFailedDefault ==
    "I understand you're looking for support. Please feel free to ask any questions about your postpartum recovery, and I'll do my best to help."

error_response ==
    "I'm here to help with your postpartum journey. Could you tell me more about what you're experiencing? If you have urgent concerns, please don't hesitate to contact your healthcare provider."

\* generate_conversational_response without the default for an empty text
GenerateNoDefault(resp) ==
    IF resp.raises THEN GenerateFailedDefault ELSE resp.text

\* PostpartumRAGSystem.generate_conversational_response: the text it returns
generate_conversational_response(resp) ==
    IF resp.raises THEN GenerateFailedDefault
    ELSE IF resp.text # "" THEN resp.text
    ELSE EmptyTextDefault

\* s.split(sep) for a one-character separator: the pieces, empty ones included
RECURSIVE SplitOn(_, _, _, _)
SplitOn(s, sep, i, cur) ==
    IF i > Len(s) THEN <<cur>>
    ELSE IF Char(s, i) = sep
         THEN <<cur>> \o SplitOn(s, sep, i + 1, "")
         ELSE SplitOn(s, sep, i + 1, cur \o Char(s, i))

RECURSIVE StripAll(_)
StripAll(seq) == IF seq = <<>> THEN <<>> ELSE <<Strip(Head(seq))>> \o StripAll(Tail(seq))

\* _parse_related_questions with the filter `if q` in place of `if q.strip()`
ParseKeepsBlankEntries(related_questions_str) ==
    IF related_questions_str = "" THEN <<>>
    ELSE Take(StripAll(SelectSeq(SplitOn(related_questions_str, ";", 1, ""),
                                 LAMBDA q : q # "")), 5)

\* ChatInterface._parse_related_questions
_parse_related_questions(related_questions_str) ==
    IF related_questions_str = "" THEN <<>>
    ELSE Take(SelectSeq(StripAll(SplitOn(related_questions_str, ";", 1, "")),
                        LAMBDA q : q # ""), 5)

\* the start (1-based) of the first match of https?://[^\s]+ in source, 0 for none
UrlStart(source) ==
    LET starts == {i \in 1..Len(source) :
                     \E scheme \in {"http://", "https://"} :
                        /\ i + Len(scheme) <= Len(source)
                        /\ SubSeq(source, i, i + Len(scheme) - 1) = scheme
                        /\ ~IsSpace(Char(source, i + Len(scheme)))}
    IN IF starts = {} THEN 0 ELSE CHOOSE i \in starts : \A j \in starts : i <= j

\* the end of the run of non-whitespace characters that starts at i
RECURSIVE RunEnd(_, _)
RunEnd(s, i) == IF i < Len(s) /\ ~IsSpace(Char(s, i + 1)) THEN RunEnd(s, i + 1) ELSE i

\* s.replace(old, "") for a non-empty old
RECURSIVE Remove(_, _)
Remove(s, old) ==
    IF Len(s) < Len(old) THEN s
    ELSE IF SubSeq(s, 1, Len(old)) = old THEN Remove(SubSeq(s, Len(old) + 1, Len(s)), old)
    ELSE Char(s, 1) \o Remove(SubSeq(s, 2, Len(s)), old)

\* the Source section of _format_response
SourcePart(source) ==
    LET start == UrlStart(source)
    IN IF start = 0 THEN "**Source:** " \o source
       ELSE LET url == SubSeq(source, start, RunEnd(source, start))
                source_name == Strip(Remove(Remove(source, url), EnDash))
            IN "**Source:** [" \o source_name \o "](" \o url \o ")"

RECURSIVE Join(_, _)
Join(parts, sep) ==
    IF parts = <<>> THEN ""
    ELSE IF Len(parts) = 1 THEN parts[1]
    ELSE parts[1] \o sep \o Join(Tail(parts), sep)

\* a field is falsy when it is empty or None
Truthy(v) == v # "" /\ v # NoneValue

\* ChatInterface._format_response (the emoji of the labels are left out)
_format_response(match_data) ==
    Join((IF Truthy(match_data.ShortAnswer)
          THEN <<"**Quick Answer:** " \o match_data.ShortAnswer>> ELSE <<>>)
         \o (IF Truthy(match_data.LongAnswer)
             THEN <<"**Detailed Information:** " \o match_data.LongAnswer>> ELSE <<>>)
         \o (IF Truthy(match_data.WhenToSeekHelp)
             THEN <<"**When to Seek Medical Help:** " \o match_data.WhenToSeekHelp>> ELSE <<>>)
         \o (IF Truthy(match_data.Source) THEN <<SourcePart(match_data.Source)>> ELSE <<>>)
         \o (IF Truthy(match_data.Category)
             THEN <<"**Category:** " \o match_data.Category>> ELSE <<>>),
         "\n\n")

\* what get_response did: whether it raised to its caller, the pair it returned,
\* the search it ran and every provider call of the whole get_response call
ResponseReturn(response, metadata, found, provider) ==
    [raised |-> FALSE, response |-> response, metadata |-> metadata,
     search |-> found, provider |-> provider]

\* the strong and the medium threshold of get_response
StrongThreshold == 70
MediumThreshold == 30

\* the metadata of a medium or strong match
Metadata(best_match, confidence) ==
    [confidence_score |-> confidence,
     category |-> best_match.Category,
     source |-> best_match.Source,
     related_questions |-> _parse_related_questions(best_match.RelatedQuestions),
     when_to_seek_help |-> best_match.WhenToSeekHelp,
     conversational |-> confidence < StrongThreshold]

\* the gate with the one threshold self.confidence_threshold = 0.6 for a match
GateSingleThreshold(best, best_match, confidence, genResp, found) ==
    IF confidence >= 60
    THEN ResponseReturn(_format_response(best_match), Metadata(best_match, confidence),
                        found, found.provider)
    ELSE IF confidence >= MediumThreshold
    THEN ResponseReturn(generate_conversational_response(genResp),
                        Metadata(best_match, confidence), found,
                        found.provider \o <<ProviderCall("generate", best)>>)
    ELSE ResponseReturn(generate_conversational_response(genResp),
                        [confidence_score |-> confidence, conversational |-> TRUE],
                        found, found.provider \o <<ProviderCall("generate", 0)>>)

\* the gate with the medium test first, so that a strong match is generated too
GateMediumFirst(best, best_match, confidence, genResp, found) ==
    IF confidence >= MediumThreshold
    THEN ResponseReturn(generate_conversational_response(genResp),
                        Metadata(best_match, confidence), found,
                        found.provider \o <<ProviderCall("generate", best)>>)
    ELSE IF confidence >= StrongThreshold
    THEN ResponseReturn(_format_response(best_match), Metadata(best_match, confidence),
                        found, found.provider)
    ELSE ResponseReturn(generate_conversational_response(genResp),
                        [confidence_score |-> confidence, conversational |-> TRUE],
                        found, found.provider \o <<ProviderCall("generate", 0)>>)

\* get_response from `best_match, confidence = results[0]` on
Gate(best, best_match, confidence, genResp, found) ==
    IF confidence >= StrongThreshold
    THEN ResponseReturn(_format_response(best_match), Metadata(best_match, confidence),
                        found, found.provider)
    ELSE IF confidence >= MediumThreshold
    THEN ResponseReturn(generate_conversational_response(genResp),
                        Metadata(best_match, confidence), found,
                        found.provider \o <<ProviderCall("generate", best)>>)
    ELSE ResponseReturn(generate_conversational_response(genResp),
                        [confidence_score |-> confidence, conversational |-> TRUE],
                        found, found.provider \o <<ProviderCall("generate", 0)>>)

\* get_response without its try/except: the search's exception reaches the caller
AfterSearchUncaught(store, genResp, found) ==
    IF found.error # ""
    THEN [raised |-> TRUE, response |-> "", metadata |-> [error |-> found.error],
          search |-> found, provider |-> found.provider]
    ELSE IF found.results = <<>>
    THEN ResponseReturn(generate_conversational_response(genResp),
                        [confidence_score |-> 0, conversational |-> TRUE],
                        found, found.provider \o <<ProviderCall("generate", 0)>>)
    ELSE Gate(found.results[1].idx, store[found.results[1].idx], found.results[1].score,
              genResp, found)

\* get_response after the search; found is what rag_system.search did
AfterSearch(store, genResp, found) ==
    IF found.error # ""
    THEN ResponseReturn(error_response, [error |-> found.error], found, found.provider)
    ELSE IF found.results = <<>>
    THEN ResponseReturn(generate_conversational_response(genResp),
                        [confidence_score |-> 0, conversational |-> TRUE],
                        found, found.provider \o <<ProviderCall("generate", 0)>>)
    ELSE Gate(found.results[1].idx, store[found.results[1].idx], found.results[1].score,
              genResp, found)

\* ChatInterface.get_response on a rag_system whose records are store
get_response(store, user_question, selectResp, genResp) ==
    AfterSearch(store, genResp, search(store, user_question, 3, selectResp))

----------------------------------------------------------------------------
(* The two objects and their callers *)

\* no call has been made, or the caller has taken the last return value
NoCall == [op |-> "none"]

\* how opening and parsing the JSON file can end: "" is success
LoadFaults == {"FileNotFoundError", "JSONDecodeError", "OSError"}

\* self.data of PostpartumKnowledgeBase: None, or the loaded list
KbData(isNone, items) == [isNone |-> isNone, items |-> items]

\* PostpartumRAGSystem.load_knowledge_base: the exception is logged and raised again
load_knowledge_base ==
    /\ call = NoCall
    /\ \/ \E doc \in Documents :
             /\ knowledge_data' = doc
             /\ call' = [op |-> "load_knowledge_base", fault |-> "", error |-> ""]
       \/ \E fault \in LoadFaults :
             /\ knowledge_data' = knowledge_data
             /\ call' = [op |-> "load_knowledge_base", fault |-> fault, error |-> fault]
    /\ UNCHANGED <<data, session_state, page>>

\* load_data with the one clause `except Exception` for every fault
LoadDataErrorGeneric(fault) == "Exception"

\* the exception load_data raises for a fault of the open or the parse
LoadDataError(fault) ==
    IF fault = "FileNotFoundError" THEN "FileNotFoundError"
    ELSE IF fault = "JSONDecodeError" THEN "ValueError"
    ELSE "Exception"

\* PostpartumKnowledgeBase.load_data
load_data ==
    /\ call = NoCall
    /\ \/ \E doc \in Documents :
             /\ data' = KbData(FALSE, doc)
             /\ call' = [op |-> "load_data", fault |-> "", error |-> ""]
       \/ \E fault \in LoadFaults :
             /\ data' = data
             /\ call' = [op |-> "load_data", fault |-> fault, error |-> LoadDataError(fault)]
    /\ UNCHANGED <<knowledge_data, session_state, page>>

\* a search that keeps only the first top_k records of the store it ranked
SearchTruncatesStore ==
    /\ call = NoCall
    /\ \E query \in Queries, top_k \in TopKs, resp \in SelectResponses :
          /\ call' = [op |-> "search", query |-> query, top_k |-> top_k, resp |-> resp,
                      ret |-> search(knowledge_data, query, top_k, resp)]
          /\ knowledge_data' = Take(knowledge_data, top_k)
    /\ UNCHANGED <<data, session_state, page>>

\* a caller runs PostpartumRAGSystem.search
Search ==
    /\ call = NoCall
    /\ \E query \in Queries, top_k \in TopKs, resp \in SelectResponses :
          call' = [op |-> "search", query |-> query, top_k |-> top_k, resp |-> resp,
                   ret |-> search(knowledge_data, query, top_k, resp)]
    /\ UNCHANGED <<knowledge_data, data, session_state, page>>

\* a caller runs PostpartumKnowledgeBase.search
KbSearch ==
    /\ call = NoCall
    /\ \E query \in Queries, top_k \in TopKs, resp \in SelectResponses :
          call' = [op |-> "kb_search", query |-> query, top_k |-> top_k, resp |-> resp,
                   ret |-> kb_search(data, query, top_k, resp)]
    /\ UNCHANGED <<knowledge_data, data, session_state, page>>

\* a caller runs ChatInterface.get_response
GetResponse ==
    /\ call = NoCall
    /\ \E query \in Queries, selectResp \in SelectResponses, genResp \in GenerateResponses :
          call' = [op |-> "get_response", query |-> query, selectResp |-> selectResp,
                   genResp |-> genResp,
                   ret |-> get_response(knowledge_data, query, selectResp, genResp)]
    /\ UNCHANGED <<knowledge_data, data, session_state, page>>

\* an entry of a Related Questions field as written between semicolons, with the
\* question it stands for (core: the entry without its surrounding whitespace)
Entry(text, core) == [text |-> text, core |-> core]

RelatedEntries ==
    {Entry("a", "a"), Entry(" b ", "b"), Entry("", ""), Entry("  ", ""),
     Entry(" Is clotting normal?", "Is clotting normal?")}

\* the most entries of the fields enumerated in full
MaxEntries == 2

\* the fields of the examples: "a; b ;c;" and seven entries
ExampleFields ==
    {<<Entry("a", "a"), Entry(" b ", "b"), Entry("c", "c"), Entry("", "")>>,
     <<Entry("q1", "q1"), Entry(" q2", "q2"), Entry("q3 ", "q3"), Entry("q4", "q4"),
       Entry("q5", "q5"), Entry("q6", "q6"), Entry("q7", "q7")>>,
     <<Entry("", ""), Entry("q1", "q1"), Entry(" ", ""), Entry("q2", "q2"),
       Entry("q3", "q3"), Entry("q4", "q4"), Entry("q5", "q5"), Entry("q6", "q6")>>}

RelatedFields ==
    ExampleFields \cup UNION {[1..n -> RelatedEntries] : n \in 0..MaxEntries}

\* the Related Questions string of a field: its entries joined by semicolons
RECURSIVE FieldText(_)
FieldText(entries) ==
    IF entries = <<>> THEN ""
    ELSE IF Len(entries) = 1 THEN entries[1].text
    ELSE entries[1].text \o ";" \o FieldText(Tail(entries))

\* a caller runs ChatInterface._parse_related_questions
ParseRelatedQuestions ==
    /\ call = NoCall
    /\ \E entries \in RelatedFields :
          call' = [op |-> "_parse_related_questions", entries |-> entries,
                   related_questions_str |-> FieldText(entries),
                   ret |-> _parse_related_questions(FieldText(entries))]
    /\ UNCHANGED <<knowledge_data, data, session_state, page>>

\* the caller takes the return value (or the exception) of the last call
Return ==
    /\ call # NoCall
    /\ call' = NoCall
    /\ UNCHANGED <<knowledge_data, data, session_state, page>>

----------------------------------------------------------------------------
(* app.py: one run of main() per step *)

\* st.session_state before the first run.  load_succeeded is history: whether
\* load_knowledge_base has returned on the object kept under "knowledge_base"
NoSession ==
    [has_messages |-> FALSE, messages |-> <<>>, has_knowledge_base |-> FALSE,
     has_chat_interface |-> FALSE, load_succeeded |-> FALSE]

\* the page after a run: "stopped" after st.stop(), "rerun" after st.rerun() (the
\* script runs again at once), "ready" when the script ran to its end; rendered is
\* the number of messages the history loop displayed
Page(status, rendered) == [status |-> status, rendered |-> rendered]
NoPage == Page("none", 0)

\* the most messages a transcript holds in the model
MaxMessages == 5

AppPrompts == {BleedingQuestion, "what about sleep"}
AppSelectResponses == {ProviderRaise, ProviderText("1")}
AppGenerateResponses == {ProviderRaise, ProviderText("You are doing great.")}

\* how the block `if "knowledge_base" not in st.session_state` ends
AppLoads ==
    {[kind |-> "no_key", doc |-> <<>>], [kind |-> "load_raises", doc |-> <<>>]}
    \cup {[kind |-> "ok", doc |-> d] : d \in Documents}

UserMessage(content) == [role |-> "user", content |-> content]
AssistantMessage(ret) ==
    [role |-> "assistant", content |-> ret.response, metadata |-> ret.metadata]

\* the related questions shown under message i of the history
RelatedOf(message) ==
    IF message.role = "assistant" /\ "related_questions" \in DOMAIN message.metadata
    THEN message.metadata.related_questions
    ELSE <<>>

\* session_state after lines 28-51 when they do not stop the script
Initialised(ss, load) ==
    [ss EXCEPT !.has_messages = TRUE,
               !.has_knowledge_base = TRUE,
               !.has_chat_interface = TRUE,
               !.load_succeeded = IF ss.has_knowledge_base THEN @ ELSE load.kind = "ok"]

\* lines 28-47 stop the script: no key (nothing stored), or the load raised after
\* the new PostpartumRAGSystem was stored under "knowledge_base"
StopsAtLoad(ss, load) == ~ss.has_knowledge_base /\ load.kind # "ok"

Stopped(load) ==
    /\ session_state' = [session_state EXCEPT
                            !.has_messages = TRUE,
                            !.has_knowledge_base = (load.kind = "load_raises")]
    /\ knowledge_data' = IF load.kind = "load_raises" THEN <<>> ELSE knowledge_data
    /\ page' = Page("stopped", 0)

\* knowledge_data of the object under "knowledge_base" once lines 31-47 are passed
LoadedData(load) ==
    IF session_state.has_knowledge_base THEN knowledge_data ELSE load.doc

\* a run nothing triggered: the first run, the run after st.rerun(), a rerun the
\* user asks for, or the click on a button that the new run no longer draws
Rerun ==
    /\ \E load \in AppLoads :
          IF StopsAtLoad(session_state, load)
          THEN Stopped(load)
          ELSE /\ session_state' = Initialised(session_state, load)
               /\ knowledge_data' = LoadedData(load)
               /\ page' = Page("ready", Len(session_state.messages))
    /\ UNCHANGED <<data, call>>

\* the run after the user sent prompt through st.chat_input
Submit ==
    /\ page.status = "ready"
    /\ Len(session_state.messages) + 2 <= MaxMessages
    /\ \E prompt \in AppPrompts, selectResp \in AppSelectResponses,
          genResp \in AppGenerateResponses :
          session_state' =
             [session_state EXCEPT
                 !.messages = @ \o <<UserMessage(prompt),
                                     AssistantMessage(get_response(knowledge_data, prompt,
                                                                   selectResp, genResp))>>]
    /\ page' = Page("ready", Len(session_state.messages))
    /\ UNCHANGED <<knowledge_data, data, call>>

\* the run after a click on related question j under message i of the history
ClickRelated ==
    /\ page.status = "ready"
    /\ Len(session_state.messages) + 1 <= MaxMessages
    /\ \E i \in 1..page.rendered :
          \E j \in 1..Len(RelatedOf(session_state.messages[i])) :
             session_state' =
                [session_state EXCEPT
                    !.messages = Append(@, UserMessage(RelatedOf(session_state.messages[i])[j]))]
    /\ page' = Page("rerun", page.rendered)
    /\ UNCHANGED <<knowledge_data, data, call>>

\* the run after a click on "Clear Chat History"
ClearChat ==
    /\ page.status = "ready"
    /\ session_state' = [session_state EXCEPT !.messages = <<>>]
    /\ page' = Page("rerun", Len(session_state.messages))
    /\ UNCHANGED <<knowledge_data, data, call>>

Init ==
    /\ knowledge_data = <<>>
    /\ data = KbData(TRUE, <<>>)
    /\ call = NoCall
    /\ session_state = NoSession
    /\ page = NoPage

Next ==
    \/ load_knowledge_base
    \/ load_data
    \/ Search
    \/ KbSearch
    \/ GetResponse
    \/ ParseRelatedQuestions
    \/ Return

Spec == Init /\ [][Next]_vars

\* the Streamlit session: the widgets act only on a page that is "ready", so after
\* st.rerun() the script runs again before the user acts
AppNext ==
    \/ Rerun
    \/ Submit
    \/ ClickRelated
    \/ ClearChat

AppSpec == Init /\ [][AppNext]_vars

----------------------------------------------------------------------------
(* Properties *)

IsSearch == call.op = "search"
IsKbSearch == call.op = "kb_search"
IsGetResponse == call.op = "get_response"

\* the records the last search call ran on
CallStore == IF IsKbSearch THEN data.items ELSE knowledge_data

\* the generate calls among the provider calls of the last get_response
GenerateCalls == SelectSeq(call.ret.provider, LAMBDA c : c.op = "generate")

\* whether the last search call asked the provider to choose candidates
SelectCalled == \E i \in 1..Len(call.ret.provider) : call.ret.provider[i].op = "select"

\* the text the provider's generator leads to: its text, or a canned default
ReplyTexts == {"You are doing great.", EmptyTextDefault, GenerateFailedDefault}

\* the last get_response answered with a generated reply that had no record in
\* its prompt, and its metadata names nothing of a record
NoContextReply ==
    /\ GenerateCalls = <<ProviderCall("generate", 0)>>
    /\ call.ret.response \in ReplyTexts
    /\ DOMAIN call.ret.metadata = {"confidence_score", "conversational"}
    /\ call.ret.metadata.conversational

\* the last get_response answered with a generated reply whose prompt held the
\* top candidate's record
ContextReply ==
    /\ GenerateCalls = <<ProviderCall("generate", call.ret.search.results[1].idx)>>
    /\ call.ret.response \in ReplyTexts
    /\ call.ret.metadata.conversational
    /\ call.ret.metadata.source = knowledge_data[call.ret.search.results[1].idx].Source

\* the last get_response answered with the structured answer of the top candidate
StructuredReply ==
    /\ GenerateCalls = <<>>
    /\ call.ret.response = _format_response(knowledge_data[call.ret.search.results[1].idx])
    /\ ~call.ret.metadata.conversational

\* C1: the confidence gate of get_response chooses exactly one outcome from the
\* search result: no candidate, or a top score below 0.3, gives a reply generated
\* without record context (and metadata without category, source or related
\* questions); a top score in [0.3, 0.7) gives a reply generated with the matched
\* record as context; a top score of 0.7 or more gives the structured answer.
\* The outcomes exclude one another, so 0.65 is MEDIUM and not STRONG.
C1_ConfidenceGate ==
    (IsGetResponse /\ call.ret.search.error = "") =>
        LET results == call.ret.search.results
        IN /\ results = <<>> => NoContextReply
           /\ (results # <<>> /\ results[1].score < 30) => NoContextReply
           /\ (results # <<>> /\ results[1].score >= 30 /\ results[1].score < 70)
                 => (ContextReply /\ ~StructuredReply)
           /\ (results # <<>> /\ results[1].score >= 70)
                 => (StructuredReply /\ ~ContextReply)

\* a get_response whose top candidate scored 0.65 answered with a reply generated
\* from that record
C1_Witness ==
    /\ IsGetResponse
    /\ call.ret.search.error = ""
    /\ call.ret.search.results # <<>>
    /\ call.ret.search.results[1].score = 65
    /\ ContextReply

\* whether a list of candidates is sorted non-increasing by score
SortedDesc(cands) == \A i \in 1..(Len(cands) - 1) : cands[i].score >= cands[i + 1].score

\* C2: for every query, top_k >= 0, record set and provider response, the list a
\* search returns (PostpartumRAGSystem.search and PostpartumKnowledgeBase.search)
\* has length <= top_k and is sorted non-increasing by score.
C2_LengthAndOrder ==
    ((IsSearch \/ IsKbSearch) /\ call.ret.error = "") =>
        /\ Len(call.ret.results) <= call.top_k
        /\ SortedDesc(call.ret.results)

\* C3: the provider's candidate selection is called only if the local ranked list
\* is empty or its top score is strictly below 0.7, in both searches.
C3_SelectOnlyBelowStrong ==
    ((IsSearch \/ IsKbSearch) /\ SelectCalled) =>
        (call.ret.local = <<>> \/ call.ret.local[1].score < 70)

\* the elements of a sequence
Range(seq) == {seq[i] : i \in 1..Len(seq)}

\* the scores of the local (top_k) and the provider's candidates for a Question
ScoresFor(question) ==
    {c.score : c \in {x \in Range(Take(call.ret.local, call.top_k)) \cup Range(call.ret.remote) :
                         knowledge_data[x.idx].Question = question}}

\* C4: the merged list of _enhanced_search holds each Question at most once, and
\* the score kept for a Question is the maximum over the local (top_k) and the
\* provider's candidates with that Question, also when several records share it.
C4_MergeKeepsMaximum ==
    (IsSearch /\ call.ret.merged # <<>>) =>
        LET merged == call.ret.merged
        IN /\ \A i, j \in 1..Len(merged) :
                 i # j => knowledge_data[merged[i].idx].Question
                            # knowledge_data[merged[j].idx].Question
           /\ \A i \in 1..Len(merged) :
                 \A sc \in ScoresFor(knowledge_data[merged[i].idx].Question) :
                    merged[i].score >= sc

\* the provider responses of the model that are a failure of the selection: an
\* exception, no text, text without a number, a number outside the record list
FailedSelections ==
    {ProviderRaise, ProviderText(""), ProviderText("none"), ProviderText("9")}

\* C5: if the provider call of a search fails (an exception, no text, unusable
\* text), the search does not raise and returns exactly the local ranked list cut
\* to top_k (the empty list when the local list was empty).
C5_ProviderFailureDegrades ==
    ((IsSearch \/ IsKbSearch) /\ SelectCalled /\ call.resp \in FailedSelections) =>
        /\ call.ret.error = ""
        /\ call.ret.results = Take(call.ret.local, call.top_k)

\* a search whose provider call raised returned its local list, cut by top_k
C5_Witness ==
    /\ IsSearch
    /\ SelectCalled
    /\ call.resp = ProviderRaise
    /\ Len(call.ret.local) > call.top_k
    /\ call.top_k > 0
    /\ call.ret.results = Take(call.ret.local, call.top_k)

\* C6: get_response never raises to its caller; when a fault occurred inside (the
\* store not loaded, a malformed record) it returns the fixed supportive message
\* with an `error` field in the metadata.
C6_NeverRaises ==
    IsGetResponse =>
        /\ ~call.ret.raised
        /\ call.ret.search.error # "" =>
              /\ call.ret.response = error_response
              /\ "error" \in DOMAIN call.ret.metadata

\* a get_response on a store with a malformed record returned the fixed message
C6_Witness ==
    /\ IsGetResponse
    /\ call.ret.search.error = "AttributeError"
    /\ call.ret.response = error_response
    /\ "error" \in DOMAIN call.ret.metadata

\* C7: when the top candidate's score is 0.7 or more, get_response makes no call
\* of the provider's text generation and the metadata says conversational = false.
C7_StrongNeverGenerates ==
    (/\ IsGetResponse
     /\ call.ret.search.error = ""
     /\ call.ret.search.results # <<>>
     /\ call.ret.search.results[1].score >= StrongThreshold) =>
        /\ \A i \in 1..Len(call.ret.provider) : call.ret.provider[i].op # "generate"
        /\ call.ret.metadata.conversational = FALSE

\* a get_response whose top candidate came from the provider (0.75) answered
\* without generating text
C7_Witness ==
    /\ IsGetResponse
    /\ call.ret.search.error = ""
    /\ call.ret.search.results # <<>>
    /\ call.ret.search.results[1].score = 75
    /\ call.ret.provider = <<SelectCall>>
    /\ ~call.ret.metadata.conversational

\* a provider call that failed or returned empty text
FailedOrEmpty == {ProviderRaise, ProviderText("")}

\* C8: for a query with no local match, if every provider call fails or returns
\* empty text, get_response returns a non-empty text with conversational = true
\* and does not raise; an empty generated text is replaced by a canned default.
C8_NoMatchProviderDown ==
    (/\ IsGetResponse
     /\ call.ret.search.error = ""
     /\ call.ret.search.local = <<>>
     /\ call.selectResp \in FailedOrEmpty
     /\ call.genResp \in FailedOrEmpty) =>
        /\ ~call.ret.raised
        /\ call.ret.response # ""
        /\ call.ret.response \in {EmptyTextDefault, GenerateFailedDefault}
        /\ call.genResp = ProviderText("") => call.ret.response = EmptyTextDefault
        /\ call.ret.metadata.conversational = TRUE

\* a get_response for a query no record matches, with the provider raising in the
\* selection and returning empty text in the generation
C8_Witness ==
    /\ IsGetResponse
    /\ call.ret.search.error = ""
    /\ call.ret.search.local = <<>>
    /\ call.selectResp = ProviderRaise
    /\ call.genResp = ProviderText("")
    /\ call.ret.response = EmptyTextDefault

\* C9: after the record source failed to load, no user query is accepted and
\* answered until a load of the record source has succeeded.
C9_NoAnswerBeforeLoad ==
    (\E i \in 1..Len(session_state.messages) : session_state.messages[i].role = "assistant")
        => session_state.load_succeeded

\* whether query equals question up to letter case and surrounding whitespace
SameQuestion(query, question) == Lower(Strip(query)) = Lower(question)

\* C10: scoring a record against a query that equals its question up to letter
\* case and surrounding whitespace gives the scorer's maximum: 2.0 in
\* _enhanced_search, 1.0 in _fallback_search.
C10_ExactSelfMatch ==
    ((IsSearch \/ IsKbSearch) /\ call.ret.error = "") =>
        \A i \in 1..Len(CallStore) :
            SameQuestion(call.query, CallStore[i].Question) =>
                IF IsSearch
                THEN Score(call.query, CallStore[i]) = 200
                ELSE Min(KbScore(call.query, CallStore[i]), 100) = 100

\* C11: for a query exactly equal to the Question of a stored record R with a
\* non-empty short answer, get_response takes the STRONG path and its text has a
\* "Quick Answer:" section holding R's short answer: no other record is ranked
\* ahead of the exact match.
C11_ExactMatchAnswers ==
    (IsGetResponse /\ call.ret.search.error = "") =>
        \A i \in 1..Len(knowledge_data) :
            (/\ knowledge_data[i].Question = call.query
             /\ Truthy(knowledge_data[i].ShortAnswer)) =>
                /\ call.ret.search.results # <<>>
                /\ call.ret.search.results[1].score >= StrongThreshold
                /\ GenerateCalls = <<>>
                /\ ~call.ret.metadata.conversational
                /\ Contains("**Quick Answer:** " \o knowledge_data[i].ShortAnswer,
                            call.ret.response)

\* C12: in the list PostpartumRAGSystem.search returns, two candidates with equal
\* scores stand in the order of their records' positions in the store, in the
\* purely local result and in the result merged with the provider's candidates.
C12_TiesKeepStoreOrder ==
    (IsSearch /\ call.ret.error = "") =>
        \A i, j \in 1..Len(call.ret.results) :
            (i < j /\ call.ret.results[i].score = call.ret.results[j].score) =>
                call.ret.results[i].idx < call.ret.results[j].idx

\* whether an answer is in the format the prompt asks for: numbers separated by
\* commas, each the number of a record of the store
ExpectedFormat(text, n) ==
    \A piece \in Range(StripAll(SplitOn(text, ",", 1, ""))) :
        IsDigit(piece) /\ ToInt(piece) \in 1..n

\* C13: a selection answer that is non-numeric, holds an out-of-range index or is
\* otherwise not in the expected format (numbers embedded in free text) yields an
\* empty remote candidate list, and the search does not raise.
C13_DefensiveParsing ==
    (/\ IsSearch \/ IsKbSearch
     /\ SelectCalled
     /\ ~call.resp.raises
     /\ ~ExpectedFormat(call.resp.text, Len(CallStore))) =>
        /\ call.ret.error = ""
        /\ call.ret.remote = <<>>

IsLoad == call.op \in {"load_knowledge_base", "load_data"}

\* the exception a load raises for a fault: load_knowledge_base raises the
\* exception it caught again, load_data raises its own
RaisedFor(op, fault) == IF op = "load_data" THEN LoadDataError(fault) ELSE fault

\* C14: a load that fails raises an error that tells the three causes apart (file
\* absent, malformed JSON, another I/O fault), and in each case the record store
\* is left exactly as it was before the load.
C14_LoadFailureDistinctNoPartial ==
    [][(call = NoCall /\ IsLoad' /\ call'.error # "") =>
          /\ knowledge_data' = knowledge_data
          /\ data' = data
          /\ \A other \in LoadFaults \ {call'.fault} :
                RaisedFor(call'.op, other) # call'.error]_vars

\* a load_data that failed on malformed JSON after an earlier load: ValueError,
\* and the records of the earlier load are still there
C14_Witness ==
    /\ call.op = "load_data"
    /\ call.fault = "JSONDecodeError"
    /\ call.error = "ValueError"
    /\ data = KbData(FALSE, FullStore)

\* C15: after a successful load no search, _ai_assisted_search,
\* generate_conversational_response or get_response call modifies the record
\* store: the records, their order and their field values stay as loaded.
C15_StoreNeverMutated ==
    [][(call = NoCall /\ (IsSearch \/ IsKbSearch \/ IsGetResponse)') =>
          /\ knowledge_data' = knowledge_data
          /\ data' = data]_vars

\* a search on the loaded three-record store that asked the provider and merged
\* its candidates, with the store as loaded
C15_Witness ==
    /\ IsSearch
    /\ call.ret.merged # <<>>
    /\ knowledge_data = FullStore

IsParse == call.op = "_parse_related_questions"

\* the questions of a field: the entries that are not blank, without their
\* surrounding whitespace, in their order
RECURSIVE Questions(_)
Questions(entries) ==
    IF entries = <<>> THEN <<>>
    ELSE (IF Head(entries).core = "" THEN <<>> ELSE <<Head(entries).core>>)
         \o Questions(Tail(entries))

\* C16: _parse_related_questions returns the semicolon-separated entries, trimmed,
\* without the empty ones, in their order, cut to the first 5; the empty string
\* gives the empty list.
C16_ParseRelatedQuestions ==
    IsParse =>
        /\ call.ret = Take(Questions(call.entries), 5)
        /\ call.related_questions_str = "" => call.ret = <<>>

\* seven entries gave the first five
C16_Witness ==
    /\ IsParse
    /\ Len(call.entries) = 7
    /\ call.ret = <<"q1", "q2", "q3", "q4", "q5">>

\* the calls of one provider operation among the provider calls of the last call
CallsOf(op) == SelectSeq(call.ret.provider, LAMBDA c : c.op = op)

\* C17: within one get_response call the provider is never retried: at most one
\* selection call and at most one generation call are made, so no call of an
\* operation follows a failed call of the same operation.
C17_NoProviderRetry ==
    IsGetResponse =>
        /\ Len(CallsOf("select")) <= 1
        /\ Len(CallsOf("generate")) <= 1

\* a get_response in which the selection raised and the generation raised: one
\* call of each, and the default text
C17_Witness ==
    /\ IsGetResponse
    /\ call.selectResp = ProviderRaise
    /\ call.genResp = ProviderRaise
    /\ Len(CallsOf("select")) = 1
    /\ Len(CallsOf("generate")) = 1
    /\ call.ret.response = GenerateFailedDefault

\* whether _enhanced_search scores item against query in the word-overlap tier
\* (none of the equality, containment and "low milk supply" tests applies)
InWordTier(query, item) ==
    /\ Lower(query) # Lower(item.Question)
    /\ ~Contains(Lower(query), Lower(item.Question))
    /\ ~Contains(Lower(item.Question), Lower(query))
    /\ ~(Contains("low milk supply", Lower(query))
          /\ Contains("low supply", Lower(item.Keywords)))

\* the number of query words (longer than 3 characters) that match the record's
\* question, keywords or short answer
MatchingWords(query, item) ==
    LET words == QueryWords(Lower(query))
    IN Cardinality({k \in 1..Len(words) :
                      \/ Contains(words[k], Lower(item.Question))
                      \/ Contains(words[k], Lower(item.Keywords))
                      \/ Contains(words[k], Lower(item.ShortAnswer))})

\* what the score holds beyond the phrase score and the increments of the words
BonusIn(query, item) ==
    Score(query, item)
    - PhraseScore(1, Lower(query), Lower(item.Question), Lower(item.Keywords),
                  Lower(item.ShortAnswer), Lower(item.LongAnswer))
    - WordLoop(QueryWords(Lower(query)), 1, Lower(item.Question), Lower(item.Keywords),
               Lower(item.ShortAnswer), Lower(item.Category))[1]

\* C18: in the word-overlap tier of _enhanced_search a record matched by exactly 2
\* query words gets a bonus of 0.15 and a record matched by 3 or more query words
\* gets a bonus of 0.25.
C18_MultiMatchBonus ==
    (IsSearch /\ call.ret.error = "") =>
        \A i \in 1..Len(knowledge_data) :
            InWordTier(call.query, knowledge_data[i]) =>
                /\ MatchingWords(call.query, knowledge_data[i]) = 2 =>
                      BonusIn(call.query, knowledge_data[i]) = 15
                /\ MatchingWords(call.query, knowledge_data[i]) >= 3 =>
                      BonusIn(call.query, knowledge_data[i]) = 25

\* C19: every user message of the transcript, typed into the chat input or added
\* by the click on a related question, is followed by one assistant message that
\* answers it: once the app has settled (the script ran to its end and waits for
\* the user) no user message is last in the transcript or followed by another
\* user message.
C19_EveryUserMessageAnswered ==
    page.status = "ready" =>
        \A i \in 1..Len(session_state.messages) :
            session_state.messages[i].role = "user" =>
                /\ i < Len(session_state.messages)
                /\ session_state.messages[i + 1].role = "assistant"

\* the error of a search on the object the load step has just returned from
SearchErrorAfter(op, records, kb, query) ==
    IF op = "load_data"
    THEN kb_search(kb, query, 1, ProviderRaise).error
    ELSE search(records, query, 1, ProviderRaise).error

\* C20: once load_knowledge_base (or load_data) has returned successfully, a
\* search goes on to scoring and does not fail with the "Knowledge base not
\* loaded" ValueError, for every well-formed record source, the empty JSON array
\* included.
C20_LoadedSearchProceeds ==
    [][(call = NoCall /\ IsLoad' /\ call'.error = "") =>
          \A query \in Queries :
              SearchErrorAfter(call'.op, knowledge_data', data', query) # "ValueError"]_vars

\* whether a selection answer names a record of the store among its first top_k
\* numbers
NamesRecord(resp, top_k, n) ==
    /\ ~resp.raises
    /\ \E k \in 1..Min(top_k, Len(FindAllDigits(resp.text))) :
          ToInt(FindAllDigits(resp.text)[k]) \in 1..n

\* whether the local list is empty or its top score is below 0.7
LocalBelowStrong(local) == local = <<>> \/ local[1].score < StrongThreshold

\* C21: in PostpartumRAGSystem with top_k >= 1, when the local top score is below
\* 0.7 (or there is no local candidate) and the selection answer names a record
\* among its first top_k numbers, the top score of the returned list is at least
\* 0.75 and get_response takes the STRONG path; so get_response ends in NO_MATCH,
\* WEAK or MEDIUM only when the selection failed or named no record.
C21_ProviderPickIsStrong ==
    /\ (/\ IsSearch
        /\ call.ret.error = ""
        /\ call.top_k >= 1
        /\ LocalBelowStrong(call.ret.local)
        /\ NamesRecord(call.resp, call.top_k, Len(knowledge_data))) =>
           /\ call.ret.results # <<>>
           /\ call.ret.results[1].score >= 75
    /\ (IsGetResponse /\ call.ret.search.error = "") =>
           /\ (/\ LocalBelowStrong(call.ret.search.local)
               /\ NamesRecord(call.selectResp, 3, Len(knowledge_data))) =>
                  /\ call.ret.search.results # <<>>
                  /\ call.ret.search.results[1].score >= 75
                  /\ StructuredReply
           /\ (call.ret.search.results = <<>> \/ call.ret.metadata.conversational) =>
                  ~NamesRecord(call.selectResp, 3, Len(knowledge_data))

\* a get_response for a query no record matches, with the provider naming record
\* 2 inside free text: the structured answer of record 2 at 0.75
C21_Witness ==
    /\ IsGetResponse
    /\ call.ret.search.error = ""
    /\ call.ret.search.local = <<>>
    /\ call.selectResp = ProviderText("Try 9 or 2")
    /\ call.ret.search.results[1] = Cand(2, 75)
    /\ StructuredReply

====
